---- MODULE Spec2Model ----
(***************************************************************************)
(* A model of rhiza's `inject` command (src/src/rhiza/commands/inject.py). *)
(*                                                                         *)
(* The filesystem is a function from absolute paths (sequences of path     *)
(* components, <<>> being the root "/") to nodes.  The target repository   *)
(* lives at TARGET, the directory returned by tempfile.mkdtemp() at TMP.   *)
(* An include entry is the string of the manifest as pathlib parses it:    *)
(* `abs` says whether the string starts with "/", `comps` are its parts.   *)
(***************************************************************************)
EXTENDS Integers, Sequences, FiniteSets, TLC

\* Longest include list a manifest drawn by Init carries.
MaxInclude == 2

----------------------------------------------------------------------------
\* Paths

TARGET == <<"repo">>
TMP == <<"tmp">>

\* Paths of the model relative to a checkout (the target or the scratch clone).
RelPaths ==
    { <<".github">>, <<".github", "template.yml">>, <<"Makefile">>,
      <<"d">>, <<"d", "f">> }

\* Paths of the host outside the target and the scratch directory.
HostPaths == { <<"Makefile">> }

AllPaths ==
    HostPaths \cup {TARGET, TMP, TARGET \o <<".git">>}
      \cup {TARGET \o r : r \in RelPaths} \cup {TMP \o r : r \in RelPaths}

IsPrefix(p, q) == Len(p) <= Len(q) /\ SubSeq(q, 1, Len(p)) = p

Parent(p) == SubSeq(p, 1, Len(p) - 1)

\* An include entry: Rel("a/b") is a/b, Abs("/a") is /a.
Rel(c) == [abs |-> FALSE, comps |-> c]
Abs(c) == [abs |-> TRUE, comps |-> c]

\* pathlib's `base / entry`: an absolute right operand replaces the base.
Join(base, inc) == IF inc.abs THEN inc.comps ELSE base \o inc.comps

----------------------------------------------------------------------------
\* File contents and nodes

NoInclude == << >>

\* The content of a file: `body` tells blobs apart; a manifest also carries
\* the mapping yaml.safe_load reads from it (a key that is absent has its
\* has* flag FALSE).
Content(body, repo, hasBranch, br, hasInclude, include) ==
    [body |-> body, repo |-> repo, hasBranch |-> hasBranch, branch |-> br,
     hasInclude |-> hasInclude, include |-> include]

Blob(body) == Content(body, "", FALSE, "", FALSE, NoInclude)

NoData == Blob("")

None == [kind |-> "none", data |-> NoData]
Dir == [kind |-> "dir", data |-> NoData]
File(c) == [kind |-> "file", data |-> c]

Lookup(f, p) ==
    IF Len(p) = 0 THEN Dir
    ELSE IF p \in DOMAIN f THEN f[p] ELSE None

Exists(f, p) == Lookup(f, p).kind # "none"
IsDir(f, p) == Lookup(f, p).kind = "dir"

\* The subtree of f at base, as a function of the relative paths.
Tree(f, base) == [r \in RelPaths |-> Lookup(f, base \o r)]

\* What lies at p, keyed by the path below p (<<>> is p itself).
Suffixes == {<< >>, <<"template.yml">>, <<"f">>}

At(f, p) == [s \in Suffixes |-> Lookup(f, p \o s)]

----------------------------------------------------------------------------
\* Filesystem operations used by inject

\* shutil.rmtree(p): p and everything below it goes.
RmTree(f, p) == [q \in DOMAIN f |-> IF IsPrefix(p, q) THEN None ELSE f[q]]

\* Path.unlink(): the one file goes.
Unlink(f, p) == [q \in DOMAIN f |-> IF q = p THEN None ELSE f[q]]

\* Path.mkdir(parents=True, exist_ok=True) on p: every missing ancestor and p
\* itself become directories; a non-directory on the way raises.
MkdirParents(f, p) ==
    LET chain == {SubSeq(p, 1, k) : k \in 1..Len(p)}
    IN  IF \E q \in chain : Lookup(f, q).kind = "file"
        THEN [ok |-> FALSE, fs |-> f]
        ELSE [ok |-> TRUE,
              fs |-> [q \in DOMAIN f |-> IF q \in chain THEN Dir ELSE f[q]]]

\* shutil.copytree(src, dst) onto a dst that does not exist.
CopyTree(f, src, dst) ==
    [q \in DOMAIN f |->
        IF IsPrefix(dst, q)
        THEN Lookup(f, src \o SubSeq(q, Len(dst) + 1, Len(q)))
        ELSE f[q]]

\* shutil.copy2(src, dst).
Copy2(f, src, dst) == [q \in DOMAIN f |-> IF q = dst THEN Lookup(f, src) ELSE f[q]]

----------------------------------------------------------------------------
\* The manifest

DefaultRepo == "jebel-quant/rhiza"

DefaultInclude ==
    << Rel(<<".github">>), Abs(<<".editorconfig">>), Abs(<<".gitignore">>),
       Abs(<<".pre-commit-config.yaml">>), Abs(<<"Makefile">>),
       Abs(<<"pytest.ini">>) >>

\* template_content with the branch argument ignored.
template_content_FixedBranch(br) ==
    [repo |-> DefaultRepo, hasBranch |-> TRUE, branch |-> "main",
     hasInclude |-> TRUE, include |-> DefaultInclude]

\* The mapping inject builds when the manifest is missing.
template_content(br) ==
    [repo |-> DefaultRepo, hasBranch |-> TRUE, branch |-> br,
     hasInclude |-> TRUE, include |-> DefaultInclude]

\* yaml.dump of a mapping: the text of the file (keys sorted, nothing lost).
YamlDump(m) ==
    Content("manifest", m.repo, m.hasBranch, m.branch, m.hasInclude, m.include)

\* yaml.safe_load of a file's text: the mapping it holds.
YamlLoad(c) ==
    [repo |-> c.repo, hasBranch |-> c.hasBranch, branch |-> c.branch,
     hasInclude |-> c.hasInclude, include |-> c.include]

\* config.get("template-branch", branch)
GetBranch(m, br) == IF m.hasBranch THEN m.branch ELSE br

\* config.get("include", [])
GetInclude(m) == IF m.hasInclude THEN m.include ELSE << >>

NoConfig == [repo |-> "", branch |-> "", include |-> << >>]

template_file == TARGET \o <<".github", "template.yml">>

----------------------------------------------------------------------------
\* One iteration of the copy loop

\* The removal and the copy of lines 122-132, for a source that exists.
Replace(f, src, dst) ==
    LET f1 == IF Exists(f, dst)
              THEN IF IsDir(f, dst) THEN RmTree(f, dst) ELSE Unlink(f, dst)
              ELSE f
        mk == MkdirParents(f1, Parent(dst))
    IN  IF ~mk.ok THEN [fs |-> f1, outcome |-> "error"]
        ELSE IF ~Exists(mk.fs, src) THEN [fs |-> mk.fs, outcome |-> "error"]
        ELSE IF IsDir(mk.fs, src)
             THEN [fs |-> CopyTree(mk.fs, src, dst), outcome |-> "added"]
             ELSE [fs |-> Copy2(mk.fs, src, dst), outcome |-> "added"]

\* ProcessPath without the `and not force` of line 118: an existing
\* destination is always overwritten.
ProcessPath_Overwrite(f, inc, frc) ==
    LET src == Join(TMP, inc)
        dst == Join(TARGET, inc)
    IN  IF ~Exists(f, src) THEN [fs |-> f, outcome |-> "notfound"]
        ELSE Replace(f, src, dst)

\* ProcessPath with a missing source raising instead of `continue`.
ProcessPath_NotFoundRaises(f, inc, frc) ==
    LET src == Join(TMP, inc)
        dst == Join(TARGET, inc)
    IN  IF ~Exists(f, src) THEN [fs |-> f, outcome |-> "error"]
        ELSE IF Exists(f, dst) /\ ~frc THEN [fs |-> f, outcome |-> "exists"]
        ELSE Replace(f, src, dst)

\* The body of `for path in include_paths`: what it leaves on disk and how it
\* ends: "added", "notfound" and "exists" continue the loop, "error" is an
\* exception raised by the copy.
ProcessPath(f, inc, frc) ==
    LET src == Join(TMP, inc)
        dst == Join(TARGET, inc)
    IN  IF ~Exists(f, src) THEN [fs |-> f, outcome |-> "notfound"]
        ELSE IF Exists(f, dst) /\ ~frc THEN [fs |-> f, outcome |-> "exists"]
        ELSE Replace(f, src, dst)

\* inject.py 110-134: the whole loop over `paths` from filesystem f, with the
\* log lines so far in lg.
RECURSIVE CopyLoop(_, _, _, _)
CopyLoop(f, paths, frc, lg) ==
    IF Len(paths) = 0 THEN [fs |-> f, log |-> lg, err |-> ""]
    ELSE LET r == ProcessPath(f, Head(paths), frc)
         IN  IF r.outcome = "error"
             THEN [fs |-> r.fs, log |-> lg, err |-> "OSError"]
             ELSE CopyLoop(r.fs, Tail(paths), frc,
                           Append(lg, [kind |-> r.outcome, path |-> Head(paths)]))

----------------------------------------------------------------------------
\* The state of one call inject(target, branch, force)

VARIABLES
    fs,             \* the filesystem
    upstream,       \* the checkout git produces, by relative path
    force,          \* the force argument
    branch,         \* the branch argument
    pc,             \* where the call is
    config,         \* rhiza_repo, rhiza_branch, include_paths once loaded
    idx,            \* position of the copy loop in include_paths
    log,            \* the per-path log lines, in order
    err,            \* the error that ends the call, "" if none
    exitCode,       \* the exit status of the process, -1 while it runs
    gitCalls,       \* the git commands run, in order
    fs0,            \* the filesystem when inject was called
    fsLoop,         \* the filesystem when the copy loop started
    everScratch,    \* whether mkdtemp has run
    run,            \* which call of inject this is: "first" or "second"
    first           \* how the first call ended, once a second one has begun

vars == <<fs, upstream, force, branch, pc, config, idx, log, err, exitCode,
          gitCalls, fs0, fsLoop, everScratch, run, first>>

\* The include entries manifests of the model are written with.
IncludeUniverse ==
    { Rel(<<"Makefile">>), Abs(<<"Makefile">>), Rel(<<".github">>),
      Rel(<<"d">>), Rel(<<"d", "f">>) }

IncludeLists == UNION {[1..k -> IncludeUniverse] : k \in 0..MaxInclude}

\* Manifests a user may have written: every include list with a
\* template-branch, one without template-branch, one without include.
Manifests ==
    { Content("manifest", "org/tpl", TRUE, "stable", TRUE, inc) : inc \in IncludeLists }
    \cup { Content("manifest", "org/tpl", FALSE, "", TRUE, << Rel(<<"Makefile">>) >>),
           Content("manifest", "org/tpl", TRUE, "stable", FALSE, NoInclude) }

\* What <root>/.github can be: absent, a file, a directory without or with a
\* manifest.
GithubShapes(ms) ==
    { [top |-> None, tmpl |-> None], [top |-> File(Blob("local")), tmpl |-> None],
      [top |-> Dir, tmpl |-> None] }
    \cup { [top |-> Dir, tmpl |-> File(m)] : m \in ms }

\* What <root>/d can be: absent, an empty directory, a directory holding f.
DShapes(body) ==
    { [top |-> None, f |-> None], [top |-> Dir, f |-> None],
      [top |-> Dir, f |-> File(Blob(body))] }

MakefileShapes(body) == { None, File(Blob(body)) }

UpstreamManifest == Content("manifest", "org/tpl", TRUE, "main", TRUE, << Rel(<<"Makefile">>) >>)

MkTree(gh, mk, d) ==
    [r \in RelPaths |->
        CASE r = <<".github">> -> gh.top
          [] r = <<".github", "template.yml">> -> gh.tmpl
          [] r = <<"Makefile">> -> mk
          [] r = <<"d">> -> d.top
          [] r = <<"d", "f">> -> d.f]

MkFs(git, tree, hostMk) ==
    [q \in AllPaths |->
        CASE q = TARGET -> Dir
          [] q = TARGET \o <<".git">> -> git
          [] q \in HostPaths -> hostMk
          [] IsPrefix(TARGET, q) /\ Len(q) > 1 /\ q # TARGET \o <<".git">>
               -> tree[SubSeq(q, 2, Len(q))]
          [] OTHER -> None]

\* What is kept of a call that has ended: its terminal state, its error, its
\* exit status and the git commands it ran.
NoRun == [pc |-> "", err |-> "", exitCode |-> -1, gitCalls |-> << >>]

Init ==
    /\ \E git \in {None, Dir}, gh \in GithubShapes(Manifests),
          mk \in MakefileShapes("local"), d \in DShapes("local"),
          hostMk \in MakefileShapes("host") :
          fs = MkFs(git, MkTree(gh, mk, d), hostMk)
    /\ \E gh \in {[top |-> None, tmpl |-> None],
                   [top |-> Dir, tmpl |-> File(UpstreamManifest)]},
          mk \in MakefileShapes("upstream"), d \in DShapes("upstream") :
          upstream = MkTree(gh, mk, d)
    /\ force \in BOOLEAN
    /\ branch \in {"main", "dev"}
    /\ pc = "start"
    /\ config = NoConfig
    /\ idx = 0
    /\ log = << >>
    /\ err = ""
    /\ exitCode = -1
    /\ gitCalls = << >>
    /\ fs0 = fs
    /\ fsLoop = fs
    /\ everScratch = FALSE
    /\ run = "first"
    /\ first = NoRun

\* sys.exit(1), or an exception that reaches the top of the process.
Abort(kind) ==
    /\ pc' = "aborted"
    /\ err' = kind
    /\ exitCode' = 1

\* IsRepository without the check.
IsRepository_Unchecked(f) == TRUE

\* inject.py 26-31: the target must hold a .git directory.
IsRepository(f) == IsDir(f, TARGET \o <<".git">>)

ValidateTarget ==
    /\ pc = "start"
    /\ UNCHANGED <<run, first>>
    /\ IF IsRepository(fs)
       THEN pc' = "ensure" /\ UNCHANGED <<err, exitCode>>
       ELSE Abort("NotARepository")
    /\ UNCHANGED <<fs, upstream, force, branch, config, idx, log, gitCalls, fs0,
                   fsLoop, everScratch>>

\* inject.py 39-60: what is on disk once the manifest is ensured.
EnsureFs(f, br) ==
    LET mk == MkdirParents(f, Parent(template_file))
    IN  IF ~mk.ok THEN [ok |-> FALSE, fs |-> f]
        ELSE IF ~Exists(mk.fs, template_file)
             THEN [ok |-> TRUE,
                   fs |-> [mk.fs EXCEPT
                             ![template_file] = File(YamlDump(template_content(br)))]]
             ELSE [ok |-> TRUE, fs |-> mk.fs]

EnsureManifest ==
    /\ pc = "ensure"
    /\ UNCHANGED <<run, first>>
    /\ LET r == EnsureFs(fs, branch)
       IN  /\ fs' = r.fs
           /\ IF r.ok
              THEN pc' = "load" /\ UNCHANGED <<err, exitCode>>
              ELSE Abort("OSError")
    /\ UNCHANGED <<upstream, force, branch, config, idx, log, gitCalls, fs0,
                   fsLoop, everScratch>>

\* IsEmptyManifest without the check.
IsEmptyManifest_Unchecked(inc) == FALSE

\* inject.py 72: `if not include_paths`.
IsEmptyManifest(inc) == Len(inc) = 0

\* inject.py 65-74
LoadManifest ==
    /\ pc = "load"
    /\ UNCHANGED <<run, first>>
    /\ LET m == YamlLoad(Lookup(fs, template_file).data)
           inc == GetInclude(m)
       IN  /\ config' = [repo |-> m.repo, branch |-> GetBranch(m, branch),
                         include |-> inc]
           /\ IF IsEmptyManifest(inc)
              THEN Abort("EmptyManifest")
              ELSE pc' = "mktemp" /\ UNCHANGED <<err, exitCode>>
    /\ UNCHANGED <<fs, upstream, force, branch, idx, log, gitCalls, fs0, fsLoop,
                   everScratch>>

\* inject.py 83: tempfile.mkdtemp()
MkTemp ==
    /\ pc = "mktemp"
    /\ UNCHANGED <<run, first>>
    /\ fs' = [fs EXCEPT ![TMP] = Dir]
    /\ everScratch' = TRUE
    /\ pc' = "clone"
    /\ UNCHANGED <<upstream, force, branch, config, idx, log, err, exitCode,
                   gitCalls, fs0, fsLoop>>

\* What a sparse clone checks out before any pattern is set: the files at the
\* root of the repository.
RootFiles(f, up) ==
    [q \in DOMAIN f |->
        IF IsPrefix(TMP, q) /\ Len(q) = 2 /\ up[SubSeq(q, 2, 2)].kind = "file"
        THEN up[SubSeq(q, 2, 2)]
        ELSE f[q]]

\* The checkout once the sparse patterns are set.
Checkout(f, up) ==
    [q \in DOMAIN f |->
        IF IsPrefix(TMP, q) /\ Len(q) > 1 THEN up[SubSeq(q, 2, Len(q))] ELSE f[q]]

\* What a failed subprocess.run(..., check=True) leaves: CalledProcessError.
GitFailed(cmd) ==
    /\ gitCalls' = Append(gitCalls, cmd)
    /\ err' = "RemoteFetchFailed"
    /\ pc' = "cleanup"

\* inject.py 87-102: git clone --depth 1 --filter=blob:none --sparse
Clone ==
    /\ pc = "clone"
    /\ UNCHANGED <<run, first>>
    /\ LET cmd == [cmd |-> "clone", repo |-> config.repo, branch |-> config.branch,
                   paths |-> << >>]
       IN  \/ /\ GitFailed(cmd)
              /\ UNCHANGED fs
           \/ /\ gitCalls' = Append(gitCalls, cmd)
              /\ fs' = RootFiles(fs, upstream)
              /\ pc' = "sparse_init"
              /\ UNCHANGED err
    /\ UNCHANGED <<upstream, force, branch, config, idx, log, exitCode, fs0,
                   fsLoop, everScratch>>

\* inject.py 104: git sparse-checkout init
SparseInit ==
    /\ pc = "sparse_init"
    /\ UNCHANGED <<run, first>>
    /\ LET cmd == [cmd |-> "sparse-checkout init", repo |-> "", branch |-> "",
                   paths |-> << >>]
       IN  \/ GitFailed(cmd)
           \/ /\ gitCalls' = Append(gitCalls, cmd)
              /\ pc' = "sparse_set"
              /\ UNCHANGED err
    /\ UNCHANGED <<fs, upstream, force, branch, config, idx, log, exitCode, fs0,
                   fsLoop, everScratch>>

\* inject.py 105: git sparse-checkout set --skip-checks *include_paths
SparseSet ==
    /\ pc = "sparse_set"
    /\ UNCHANGED <<run, first>>
    /\ LET cmd == [cmd |-> "sparse-checkout set", repo |-> "", branch |-> "",
                   paths |-> config.include]
       IN  \/ /\ GitFailed(cmd)
              /\ UNCHANGED <<fs, fsLoop, idx>>
           \/ /\ gitCalls' = Append(gitCalls, cmd)
              /\ fs' = Checkout(fs, upstream)
              /\ fsLoop' = fs'
              /\ idx' = 1
              /\ pc' = "copy"
              /\ UNCHANGED err
    /\ UNCHANGED <<upstream, force, branch, config, log, exitCode, fs0,
                   everScratch>>

\* inject.py 110-134: one iteration of the loop; the loop ends after the last
\* entry, or when the copy raises.
CopyStep ==
    /\ pc = "copy"
    /\ UNCHANGED <<run, first>>
    /\ idx <= Len(config.include)
    /\ LET r == ProcessPath(fs, config.include[idx], force)
       IN  /\ fs' = r.fs
           /\ IF r.outcome = "error"
              THEN /\ err' = "OSError"
                   /\ pc' = "cleanup"
                   /\ UNCHANGED <<idx, log>>
              ELSE /\ log' = Append(log, [kind |-> r.outcome,
                                          path |-> config.include[idx]])
                   /\ idx' = idx + 1
                   /\ pc' = IF idx = Len(config.include) THEN "cleanup" ELSE "copy"
                   /\ UNCHANGED err
    /\ UNCHANGED <<upstream, force, branch, config, exitCode, gitCalls, fs0,
                   fsLoop, everScratch>>

\* CleanupFs as it would be after the loop instead of in a finally clause.
CleanupFs_NoFinally(f, e) == IF e = "" THEN RmTree(f, TMP) ELSE f

\* inject.py 136-137: shutil.rmtree(tmp_dir), whatever error is pending.
CleanupFs(f, e) == RmTree(f, TMP)

\* inject.py 136-139: the finally clause, then the success message or the
\* pending exception.
Cleanup ==
    /\ pc = "cleanup"
    /\ UNCHANGED <<run, first>>
    /\ fs' = CleanupFs(fs, err)
    /\ IF err = ""
       THEN pc' = "done" /\ exitCode' = 0
       ELSE pc' = "aborted" /\ exitCode' = 1
    /\ UNCHANGED <<upstream, force, branch, config, idx, log, err, gitCalls, fs0,
                   fsLoop, everScratch>>

Terminal == pc \in {"done", "aborted"}

\* The caller runs inject(target, branch, force=True) again on the repository
\* the first call left, with the same upstream: a fresh call, lines 23-139.
RunAgain ==
    /\ Terminal
    /\ run = "first"
    /\ force
    /\ IsDir(fs0, TARGET \o <<".git">>)
    /\ run' = "second"
    /\ first' = [pc |-> pc, err |-> err, exitCode |-> exitCode, gitCalls |-> gitCalls]
    /\ pc' = "start"
    /\ config' = NoConfig
    /\ idx' = 0
    /\ log' = << >>
    /\ err' = ""
    /\ exitCode' = -1
    /\ gitCalls' = << >>
    /\ fs0' = fs
    /\ fsLoop' = fs
    /\ everScratch' = FALSE
    /\ UNCHANGED <<fs, upstream, force, branch>>

Next ==
    \/ ValidateTarget
    \/ EnsureManifest
    \/ LoadManifest
    \/ MkTemp
    \/ Clone
    \/ SparseInit
    \/ SparseSet
    \/ CopyStep
    \/ Cleanup

Spec == Init /\ [][Next]_vars

\* Two calls in a row.
SpecTwice == Init /\ [][Next \/ RunAgain]_vars

----------------------------------------------------------------------------
\* Vocabulary of the properties

IncludePaths == {config.include[i] : i \in 1..Len(config.include)}

\* The paths logged with a given outcome.
Reported(kind) == {log[i].path : i \in {j \in 1..Len(log) : log[j].kind = kind}}

Added == Reported("added")
Skipped == Reported("exists") \cup Reported("notfound")

\* target/p and upstream's p for an include entry p read as a relative path
\* (a leading "/" dropped).
InTarget(p) == TARGET \o p.comps
UpstreamHas(p) == Exists(upstream, p.comps)
UpstreamAt(p) == At(upstream, p.comps)

\* C1: a path present upstream and absent in the target when inject was
\* called is, after a run that ends in Done, in the target with upstream's
\* content and reported as added.
C1_AbsentPathAdded ==
    pc = "done" =>
        \A p \in IncludePaths :
            (UpstreamHas(p) /\ ~Exists(fs0, InTarget(p))) =>
                /\ At(fs, InTarget(p)) = UpstreamAt(p)
                /\ p \in Added

\* C2 as stated: with force=false a path present upstream and in the target
\* has the same content (whole subtree) after the run and is reported as
\* skipped, not added.
C2_ExistingUntouched ==
    (Terminal /\ ~force) =>
        \A p \in IncludePaths :
            (UpstreamHas(p) /\ Exists(fs0, InTarget(p))) =>
                /\ At(fs, InTarget(p)) = At(fs0, InTarget(p))
                /\ p \in Skipped
                /\ p \notin Added

\* C3: with force=true a path present upstream and in the target has, after
\* a run that ends in Done, exactly upstream's content.
C3_ForcedReplaced ==
    (pc = "done" /\ force) =>
        \A p \in IncludePaths :
            (UpstreamHas(p) /\ Exists(fs0, InTarget(p))) =>
                At(fs, InTarget(p)) = UpstreamAt(p)

\* C2 as the code has it: with force=false, for a path present upstream and
\* in the target, nothing that was at or under target/p when inject was
\* called is modified or removed (entries may appear beneath it), the path
\* is never reported as added, and a run that ends in Done reported it as
\* skipped.
C2_ExistingPreserved ==
    ~force =>
        \A p \in IncludePaths :
            (UpstreamHas(p) /\ Exists(fs0, InTarget(p))) =>
                /\ \A s \in Suffixes :
                      Exists(fs0, InTarget(p) \o s) =>
                          Lookup(fs, InTarget(p) \o s) = Lookup(fs0, InTarget(p) \o s)
                /\ p \notin Added
                /\ pc = "done" => p \in Skipped

\* A run without force that skipped an existing directory and still added an
\* entry beneath it.
C2_Witness ==
    /\ pc = "done"
    /\ ~force
    /\ \E p \in IncludePaths :
          /\ UpstreamHas(p)
          /\ Exists(fs0, InTarget(p))
          /\ p \in Reported("exists")
          /\ At(fs, InTarget(p)) # At(fs0, InTarget(p))

ScratchGone == \A q \in DOMAIN fs : IsPrefix(TMP, q) => fs[q] = None

\* C4: once the scratch directory has been created, every terminal state has
\* it removed, whatever ended the run.
C4_ScratchRemoved == (Terminal /\ everScratch) => ScratchGone

\* A run that ended on an error raised by a copy, after the checkout had
\* filled the scratch directory.
C4_Witness ==
    /\ pc = "aborted"
    /\ err = "OSError"
    /\ everScratch
    /\ \E q \in DOMAIN fsLoop : IsPrefix(TMP, q) /\ Len(q) > 1 /\ fsLoop[q] # None

\* The manifest inject was called with has no include entries.
EmptyManifestGiven ==
    /\ IsDir(fs0, TARGET \o <<".git">>)
    /\ Lookup(fs0, template_file).kind = "file"
    /\ ~Lookup(fs0, template_file).data.hasInclude
         \/ Len(Lookup(fs0, template_file).data.include) = 0

\* C5: with a manifest whose include is missing or empty the run aborts with
\* a non-zero exit before mkdtemp and before any git command, and leaves the
\* filesystem as it was.
C5_EmptyManifestAborts ==
    EmptyManifestGiven =>
        /\ gitCalls = << >>
        /\ ~everScratch
        /\ ~Exists(fs, TMP)
        /\ fs = fs0
        /\ pc \in {"start", "ensure", "load", "aborted"}
        /\ Terminal => (err = "EmptyManifest" /\ exitCode = 1)

\* An abort on a manifest that has no include key at all.
C5_Witness ==
    /\ pc = "aborted"
    /\ err = "EmptyManifest"
    /\ ~Lookup(fs0, template_file).data.hasInclude

\* C6: without a .git directory the run aborts with a non-zero exit and
\* writes nothing; in every run the filesystem changes only after the
\* repository check has passed.
C6_NotARepositoryNoWrites ==
    /\ ~IsDir(fs0, TARGET \o <<".git">>) =>
          /\ fs = fs0
          /\ gitCalls = << >>
          /\ ~everScratch
          /\ pc \in {"start", "aborted"}
          /\ Terminal => (err = "NotARepository" /\ exitCode = 1)
    /\ fs # fs0 => (IsDir(fs0, TARGET \o <<".git">>) /\ pc # "start")

\* An abort on a target that has neither .git nor .github.
C6_Witness ==
    /\ pc = "aborted"
    /\ err = "NotARepository"
    /\ ~Exists(fs0, TARGET \o <<".git">>)
    /\ ~Exists(fs, TARGET \o <<".github">>)

\* C7: a manifest that exists when inject is called is there with the same
\* content in every later state of the run.
C7_ManifestNeverMutated ==
    Exists(fs0, template_file) =>
        Lookup(fs, template_file) = Lookup(fs0, template_file)

\* What C8 says of a run: the manifest written carries the fixed repository,
\* the branch argument and a non-empty include list, the run reaches the
\* fetch, and the repository, branch and paths given to git and walked by
\* the copy loop are the ones in the file.
DefaultManifestUsed ==
    /\ err \notin {"NotARepository", "EmptyManifest"}
    /\ Terminal => everScratch
    /\ pc \in {"load", "mktemp", "clone", "sparse_init", "sparse_set"} =>
          LET c == Lookup(fs, template_file)
          IN  /\ c.kind = "file"
              /\ c.data.repo = "jebel-quant/rhiza"
              /\ c.data.hasBranch /\ c.data.branch = branch
              /\ c.data.hasInclude /\ Len(c.data.include) > 0
              /\ pc # "load" =>
                    config = [repo |-> c.data.repo, branch |-> c.data.branch,
                              include |-> c.data.include]
    /\ pc \notin {"start", "ensure", "load"} =>
          /\ config.repo = "jebel-quant/rhiza"
          /\ config.branch = branch
          /\ Len(config.include) > 0
    /\ Len(gitCalls) >= 1 =>
          (gitCalls[1].repo = config.repo /\ gitCalls[1].branch = config.branch)
    /\ Len(gitCalls) >= 3 => gitCalls[3].paths = config.include
    /\ \A i \in 1..Len(log) : log[i].path = config.include[i]

NoManifestGiven == IsDir(fs0, TARGET \o <<".git">>) /\ ~Exists(fs0, template_file)

\* C8 as stated: on a repository without a manifest, inject writes the
\* default manifest and proceeds with it.
C8_DefaultManifestOnAnyRepository == NoManifestGiven => DefaultManifestUsed

\* C8 as the code has it: the same, for a repository whose .github is absent
\* or a directory.
C8_DefaultManifestWritten ==
    (NoManifestGiven /\ Lookup(fs0, TARGET \o <<".github">>).kind # "file") =>
        DefaultManifestUsed

\* A first run on a repository without .github that ended in Done after
\* walking the whole default include list.
C8_Witness ==
    /\ pc = "done"
    /\ NoManifestGiven
    /\ ~Exists(fs0, TARGET \o <<".github">>)
    /\ branch = "dev"
    /\ Len(log) = Len(DefaultInclude)

FetchSucceeded == Len(gitCalls) = 3 /\ err # "RemoteFetchFailed"

InOrder ==
    /\ Len(log) = Len(config.include)
    /\ \A i \in 1..Len(log) : log[i].path = config.include[i]

AllSkippable ==
    \A p \in IncludePaths :
        \/ ~Exists(fsLoop, Join(TMP, p))
        \/ ~force /\ Exists(fsLoop, Join(TARGET, p))

Perms(seq) ==
    {[i \in 1..Len(seq) |-> seq[pi[i]]] : pi \in Permutations(1..Len(seq))}

ReportedIn(lg, kind) == {lg[i].path : i \in {j \in 1..Len(lg) : lg[j].kind = kind}}

\* The target tree, the manifest apart (two manifests with different include
\* lists are different files to begin with).
TargetBut(f) ==
    [r \in RelPaths \ {<<".github", "template.yml">>} |-> Lookup(f, TARGET \o r)]

\* C10: the loop run over any permutation of the include list, from the same
\* disk and with the same force flag, ends with the same target tree and the
\* same sets of paths reported added and skipped.
C10_OrderIrrelevant ==
    (Terminal /\ FetchSucceeded) =>
        \A q \in Perms(config.include) :
            LET r == CopyLoop(fsLoop, q, force, << >>)
            IN  /\ TargetBut(r.fs) = TargetBut(fs)
                /\ ReportedIn(r.log, "added") = Added
                /\ ReportedIn(r.log, "exists") \cup ReportedIn(r.log, "notfound") = Skipped

\* The second call ran the same git commands as the first, with the same
\* outcome: the remote answered both calls alike.
SameFetch ==
    /\ gitCalls = first.gitCalls
    /\ (err = "RemoteFetchFailed") <=> (first.err = "RemoteFetchFailed")

\* C11: after a second call with force=true on what the first call left, with
\* the same upstream, the target tree (manifest included) is what the first
\* call left and the call ended in the terminal state the first ended in.
C11_ForceIdempotent ==
    (run = "second" /\ Terminal /\ SameFetch) =>
        /\ Tree(fs, TARGET) = Tree(fs0, TARGET)
        /\ pc = first.pc
        /\ err = first.err

====
